---- MODULE Spec2Model ----
(***************************************************************************)
(* Flight observation tool (streamlit_app.py): the schedule-suggestion     *)
(* engine, the batch confirm (sign_up_for_flights) and the manual sign-up  *)
(* handler, over a day sheet whose "Observers" cells are comma-joined      *)
(* strings.                                                                *)
(*                                                                         *)
(* Strings that the code splits, strips or searches (observer cells,       *)
(* names, gates) are sequences of one-character strings.  Times are        *)
(* minutes after midnight; NaT is an unparseable or empty time cell.       *)
(***************************************************************************)
EXTENDS Integers, Sequences, FiniteSets, TLC

VARIABLES sheet, suggested, msgs, eng, pending

vars == <<sheet, suggested, msgs, eng, pending>>

(***************************************************************************)
(* Bounds of the model.                                                    *)
(***************************************************************************)
MaxFlights == 3
MaxStoreFlights == 2
NumSessions == 1

Sessions == 1..NumSessions

(***************************************************************************)
(* Program constants.                                                      *)
(***************************************************************************)
BufferMinutes == 10
GatePenalty == 15
GateScale == 10
Inf == 1000000
NaN == Inf + 1
NaT == -1

(***************************************************************************)
(* Character strings.                                                      *)
(***************************************************************************)
Ann == <<"A", "n", "n">>
Anna == <<"A", "n", "n", "a">>
Bob == <<"B", "o", "b">>
Blank == <<" ">>
Empty == <<>>

Lower(c) ==
    CASE c = "A" -> "a"
      [] c = "B" -> "b"
      [] c = "N" -> "n"
      [] c = "Y" -> "y"
      [] OTHER -> c

Upper(c) ==
    CASE c = "a" -> "A"
      [] c = "b" -> "B"
      [] c = "n" -> "N"
      [] c = "o" -> "O"
      [] OTHER -> c

IsDigit(c) == c \in {"0", "1", "2", "3", "4", "5", "6", "7", "8", "9"}

DigitVal(c) ==
    CASE c = "0" -> 0 [] c = "1" -> 1 [] c = "2" -> 2 [] c = "3" -> 3
      [] c = "4" -> 4 [] c = "5" -> 5 [] c = "6" -> 6 [] c = "7" -> 7
      [] c = "8" -> 8 [] c = "9" -> 9

RECURSIVE LStrip(_)
LStrip(s) == IF s # <<>> /\ Head(s) = " " THEN LStrip(Tail(s)) ELSE s

RECURSIVE RStrip(_)
RStrip(s) ==
    IF s # <<>> /\ s[Len(s)] = " " THEN RStrip(SubSeq(s, 1, Len(s) - 1)) ELSE s

\* str.strip()
Strip(s) == RStrip(LStrip(s))

\* str.split(','): the pieces between commas, empty pieces included
RECURSIVE SplitFrom(_, _)
SplitFrom(s, cur) ==
    IF s = <<>> THEN <<cur>>
    ELSE IF Head(s) = "," THEN <<cur>> \o SplitFrom(Tail(s), <<>>)
    ELSE SplitFrom(Tail(s), Append(cur, Head(s)))

Split(s) == SplitFrom(s, <<>>)

\* ", ".join(list)
RECURSIVE Join(_)
Join(l) ==
    IF l = <<>> THEN <<>>
    ELSE IF Len(l) = 1 THEN l[1]
    ELSE l[1] \o <<",", " ">> \o Join(Tail(l))

\* [obs.strip() for obs in s.split(',') if obs.strip()]
RECURSIVE StripAll(_)
StripAll(l) ==
    IF l = <<>> THEN <<>>
    ELSE IF Strip(Head(l)) # <<>> THEN <<Strip(Head(l))>> \o StripAll(Tail(l))
    ELSE StripAll(Tail(l))

ObserversList(s) == StripAll(Split(s))

InList(x, l) == \E i \in 1..Len(l) : l[i] = x

Count(x, l) == Cardinality({i \in 1..Len(l) : l[i] = x})

LowerStr(s) == [i \in 1..Len(s) |-> Lower(s[i])]

\* Series.str.contains(pat, case=False): pat occurs somewhere in s, letter case
\* ignored (the names of this model hold no regular-expression metacharacter)
StrContains(s, pat) ==
    \E i \in 0..(Len(s) - Len(pat)) :
        LowerStr(SubSeq(s, i + 1, i + Len(pat))) = LowerStr(pat)

(***************************************************************************)
(* get_sheet_data: the day sheet as a data frame.  A row of the sheet is   *)
(* [FlightOut, Gate, Start, End, HasEquipment, Important, Observers]; the  *)
(* frame adds busyStart and busyEnd.  Arithmetic on NaT gives NaT.         *)
(***************************************************************************)
Minus(t, d) == IF t = NaT THEN NaT ELSE t - d

Plus(t, d) == IF t = NaT THEN NaT ELSE t + d

WithBusy(r) ==
    [FlightOut |-> r.FlightOut, Gate |-> r.Gate, Start |-> r.Start, End |-> r.End,
     HasEquipment |-> r.HasEquipment, Important |-> r.Important,
     Observers |-> r.Observers,
     busyStart |-> Minus(r.Start, BufferMinutes),
     busyEnd |-> Plus(r.End, BufferMinutes)]

DataFrame(rows) == [i \in 1..Len(rows) |-> WithBusy(rows[i])]

\* get_sheet_data(gc, day): the frame of the sheet, or None when the read fails.
\* (The st.cache_data entry only makes the frame older than the live sheet; a row
\* deleted from the sheet after the frame was read is an input of the handlers.)
NoData == [state |-> "none", df |-> <<>>]

GetSheetData(live, readFails) ==
    IF readFails THEN NoData ELSE [state |-> "df", df |-> DataFrame(live)]

\* "df is not None and not df.empty"
Usable(c) == c.state = "df" /\ c.df # <<>>

(***************************************************************************)
(* parse_gate and the gate score.                                          *)
(***************************************************************************)
RECURSIVE Digits(_)
Digits(g) ==
    IF g = <<>> THEN <<>>
    ELSE IF IsDigit(Head(g)) THEN <<Head(g)>> \o Digits(Tail(g))
    ELSE Digits(Tail(g))

RECURSIVE IntOf(_)
IntOf(d) == IF d = <<>> THEN 0 ELSE IntOf(SubSeq(d, 1, Len(d) - 1)) * 10 + DigitVal(d[Len(d)])

\* concourse "" stands for None
parse_gate(gate) ==
    IF Len(gate) = 0 THEN [concourse |-> "", number |-> Inf]
    ELSE [concourse |-> IF Strip(gate) # <<>> THEN Upper(Strip(gate)[1]) ELSE "",
          number |-> IF Digits(gate) # <<>> THEN IntOf(Digits(gate)) ELSE Inf]

\* abs(a - b) on numbers that may be float('inf'): inf - inf is NaN
AbsDiff(a, b) ==
    IF a = Inf /\ b = Inf THEN NaN
    ELSE IF a = Inf \/ b = Inf THEN Inf
    ELSE IF a >= b THEN a - b ELSE b - a

\* gate_score in units of 1/GateScale: |dn| / 10 becomes |dn|, 15 becomes 150
gate_score(gate, last) ==
    IF last # <<>> /\ parse_gate(gate).concourse = parse_gate(last[1].Gate).concourse
    THEN AbsDiff(parse_gate(gate).number, parse_gate(last[1].Gate).number)
    ELSE GatePenalty * GateScale

(***************************************************************************)
(* The suggestion engine ("Suggest My Schedule" button handler).           *)
(***************************************************************************)
Rows(seq) == {seq[i] : i \in 1..Len(seq)}

Nums(seq) == [i \in 1..Len(seq) |-> seq[i].FlightOut]

\* str(x).strip().lower() == 'yes'
IsYes(x) == LowerStr(Strip(x)) = <<"y", "e", "s">>

Yes == <<"Y", "e", "s">>

No == <<"N", "o">>

WithImportant(r) ==
    [FlightOut |-> r.FlightOut, Gate |-> r.Gate, Start |-> r.Start, End |-> r.End,
     HasEquipment |-> r.HasEquipment, Important |-> r.Important,
     Observers |-> r.Observers,
     isImportant |-> IsYes(r.Important),
     busyStart |-> Minus(r.Start, BufferMinutes),
     busyEnd |-> Plus(r.End, BufferMinutes)]

\* faulty variant: the equipment flag is not looked at
HasEquipmentAndTimes_AnyEquipment(r) == r.Start # NaT /\ r.End # NaT

HasEquipmentAndTimes(r) == r.HasEquipment = Yes /\ r.Start # NaT /\ r.End # NaT

all_flights_for_scheduling(df) ==
    LET kept == SelectSeq(df, HasEquipmentAndTimes)
    IN  [i \in 1..Len(kept) |-> WithImportant(kept[i])]

is_unassigned(r) == Strip(r.Observers) = <<>>

is_assigned_to_me(r, name) == StrContains(r.Observers, name)

candidate_flights(df, name) ==
    LET keep(r) == is_unassigned(r) \/ is_assigned_to_me(r, name)
    IN  SelectSeq(all_flights_for_scheduling(df), keep)

InWindow(r, startTime, endTime) == r.Start >= startTime /\ r.End <= endTime

pre_assigned_flights(cand, name, startTime, endTime) ==
    LET keep(r) == is_assigned_to_me(r, name) /\ InWindow(r, startTime, endTime)
    IN  SelectSeq(cand, keep)

available_flights_pool(cand, pre) ==
    LET keep(r) == ~InList(r.FlightOut, Nums(pre))
    IN  SelectSeq(cand, keep)

\* DataFrame.sort_values(by='Est. Boarding Start') sorts with an unstable
\* algorithm: every arrangement of the rows in ascending start order is a
\* possible result
Arrangements(seq) ==
    {p \in [1..Len(seq) -> 1..Len(seq)] : \A i, j \in 1..Len(seq) : i # j => p[i] # p[j]}

sort_by_start(seq) ==
    {[i \in 1..Len(seq) |-> seq[p[i]]] : p \in
        {q \in Arrangements(seq) :
            \A i \in 1..(Len(seq) - 1) : seq[q[i]].Start <= seq[q[i + 1]].Start}}

\* the cursor of the greedy loop
last_flight_busy_end(st) ==
    IF st.lastFlight # <<>> THEN st.lastFlight[1].busyEnd ELSE st.startTime

Eligible(r, cursor, endTime) == r.Start >= cursor /\ r.End <= endTime

potential_next_flights(st) ==
    LET keep(r) == Eligible(r, last_flight_busy_end(st), st.endTime)
    IN  SelectSeq(st.pool, keep)

downtime(r, st) ==
    IF st.lastFlight # <<>> THEN r.busyStart - last_flight_busy_end(st) ELSE 0

importance_score(r) == IF r.isImportant THEN 0 ELSE 1

\* the sort keys of sort_values(by=[...]), first key first
SortKey(r, st) == <<downtime(r, st), importance_score(r), gate_score(r.Gate, st.lastFlight)>>

KeyLess(a, b) ==
    \/ a[1] < b[1]
    \/ a[1] = b[1] /\ a[2] < b[2]
    \/ a[1] = b[1] /\ a[2] = b[2] /\ a[3] < b[3]

\* faulty variant: a row goes in front of the rows with the same keys
RECURSIVE InsertSorted_Unstable(_, _, _)
InsertSorted_Unstable(r, sorted, st) ==
    IF sorted = <<>> THEN <<r>>
    ELSE IF ~KeyLess(SortKey(Head(sorted), st), SortKey(r, st))
         THEN <<r>> \o sorted
         ELSE <<Head(sorted)>> \o InsertSorted_Unstable(r, Tail(sorted), st)

\* sort_values on several keys is a stable sort: insert each row after the
\* rows that do not compare greater
RECURSIVE InsertSorted(_, _, _)
InsertSorted(r, sorted, st) ==
    IF sorted = <<>> THEN <<r>>
    ELSE IF KeyLess(SortKey(r, st), SortKey(Head(sorted), st))
         THEN <<r>> \o sorted
         ELSE <<Head(sorted)>> \o InsertSorted(r, Tail(sorted), st)

RECURSIVE sort_values(_, _)
sort_values(seq, st) ==
    IF seq = <<>> THEN <<>>
    ELSE InsertSorted(seq[Len(seq)], sort_values(SubSeq(seq, 1, Len(seq) - 1), st), st)

best_choice(st) == sort_values(potential_next_flights(st), st)[1]

RemoveFlight(pool, num) ==
    LET keep(r) == r.FlightOut # num
    IN  SelectSeq(pool, keep)

\* faulty variant: the flights the observer already holds do not seed the schedule
InitialState_NotSeeded(df, name, startTime, endTime, pre) ==
    [name |-> Strip(name), startTime |-> startTime, endTime |-> endTime,
     pre |-> pre,
     schedule |-> <<>>,
     lastFlight |-> IF pre # <<>> THEN <<pre[Len(pre)]>> ELSE <<>>,
     pool |-> available_flights_pool(candidate_flights(df, Strip(name)), pre),
     assignments_made_in_round |-> TRUE]

\* user_observer_state and the loop variables before the first iteration
InitialState(df, name, startTime, endTime, pre) ==
    [name |-> Strip(name), startTime |-> startTime, endTime |-> endTime,
     pre |-> pre,
     schedule |-> pre,
     lastFlight |-> IF pre # <<>> THEN <<pre[Len(pre)]>> ELSE <<>>,
     pool |-> available_flights_pool(candidate_flights(df, Strip(name)), pre),
     assignments_made_in_round |-> TRUE]

LoopCondition(st) == st.assignments_made_in_round /\ st.pool # <<>>

\* faulty variant: a round without an assignment does not clear the loop flag
GreedyIteration_NoStop(st) ==
    IF potential_next_flights(st) # <<>>
    THEN [st EXCEPT !.schedule = Append(st.schedule, best_choice(st)),
                    !.lastFlight = <<best_choice(st)>>,
                    !.pool = RemoveFlight(st.pool, best_choice(st).FlightOut),
                    !.assignments_made_in_round = TRUE]
    ELSE st

\* one iteration of the while loop
GreedyIteration(st) ==
    IF potential_next_flights(st) # <<>>
    THEN [st EXCEPT !.schedule = Append(st.schedule, best_choice(st)),
                    !.lastFlight = <<best_choice(st)>>,
                    !.pool = RemoveFlight(st.pool, best_choice(st).FlightOut),
                    !.assignments_made_in_round = TRUE]
    ELSE [st EXCEPT !.assignments_made_in_round = FALSE]

RECURSIVE GreedyLoop(_)
GreedyLoop(st) == IF LoopCondition(st) THEN GreedyLoop(GreedyIteration(st)) ELSE st

\* list.sort(key=Est. Boarding Start): a stable sort
RECURSIVE InsertByStart(_, _)
InsertByStart(r, sorted) ==
    IF sorted = <<>> THEN <<r>>
    ELSE IF r.Start < Head(sorted).Start THEN <<r>> \o sorted
    ELSE <<Head(sorted)>> \o InsertByStart(r, Tail(sorted))

RECURSIVE SortSchedule(_)
SortSchedule(seq) ==
    IF seq = <<>> THEN <<>>
    ELSE InsertByStart(seq[Len(seq)], SortSchedule(SubSeq(seq, 1, Len(seq) - 1)))

\* the possible values of pre_assigned_flights after its sort
SortedPreAssigned(df, name, startTime, endTime) ==
    sort_by_start(pre_assigned_flights(candidate_flights(df, Strip(name)), Strip(name),
                                       startTime, endTime))

\* the schedule shown for a request, given the sorted pre-assigned flights
SuggestedSchedule(df, name, startTime, endTime, pre) ==
    SortSchedule(GreedyLoop(InitialState(df, name, startTime, endTime, pre)).schedule)

(***************************************************************************)
(* Inputs: observer names typed into the name field, the half-hour times   *)
(* of the two sliders, and the rows a day sheet may hold.                  *)
(***************************************************************************)
NameInputs == {Ann, Anna, Blank}

TimeOptions == {540, 600}

FlightNumber(i) == 100 + i

Row(i, start, end, equip, imp, gate, obs) ==
    [FlightOut |-> FlightNumber(i), Gate |-> gate, Start |-> start, End |-> end,
     HasEquipment |-> equip, Important |-> imp, Observers |-> obs]

GateA1 == <<"A", "1">>
GateA2 == <<"A", "2">>
GateB5 == <<"b", "5">>

\* the rows a sheet of the engine runs may hold at position i
EngineRowChoices(i) ==
    { Row(i, 540, 550, Yes, No, GateA1, Empty),
      Row(i, 560, 570, Yes, No, GateA2, Empty),
      Row(i, 560, 570, Yes, No, GateB5, Empty),
      Row(i, 590, 600, Yes, Yes, GateB5, Empty),
      Row(i, 540, 540, Yes, No, GateA1, Empty),
      Row(i, 580, 590, Yes, No, Empty, Blank),
      Row(i, 560, 570, Yes, Yes, Empty, Empty),
      Row(i, NaT, 550, Yes, No, GateA1, Empty),
      Row(i, 540, 580, Yes, No, GateA1, Anna),
      Row(i, 560, 570, Yes, No, GateA2, Anna),
      Row(i, 540, 540, Yes, No, GateA2, Ann),
      Row(i, 560, 570, No, No, GateA1, Ann),
      Row(i, 560, 570, Yes, No, GateA2, Bob) }

\* the rows a sheet of the sign-up runs may hold at position i
StoreRowChoices(i) ==
    { Row(i, 540 + 30 * (i - 1), 550 + 30 * (i - 1), Yes, No, GateA1, Empty),
      Row(i, 540 + 30 * (i - 1), 550 + 30 * (i - 1), Yes, Yes, GateA2,
          IF i = 1 THEN Anna ELSE Bob) }

RECURSIVE EngineSheetsOfLen(_)
EngineSheetsOfLen(k) ==
    IF k = 0 THEN {<<>>}
    ELSE {Append(sh, r) : sh \in EngineSheetsOfLen(k - 1), r \in EngineRowChoices(k)}

EngineSheets == UNION {EngineSheetsOfLen(k) : k \in 1..MaxFlights}

RECURSIVE StoreSheetsOfLen(_)
StoreSheetsOfLen(k) ==
    IF k = 0 THEN {<<>>}
    ELSE {Append(sh, r) : sh \in StoreSheetsOfLen(k - 1), r \in StoreRowChoices(k)}

StoreSheets == UNION {StoreSheetsOfLen(k) : k \in 1..MaxStoreFlights}

(***************************************************************************)
(* Messages shown by a handler: [kind, flight], flight 0 when none.        *)
(***************************************************************************)
Msg(kind, flight) == [kind |-> kind, flight |-> flight]

EngIdle ==
    [pc |-> "idle", name |-> <<>>, startTime |-> 0, endTime |-> 0, pre |-> <<>>,
     schedule |-> <<>>, lastFlight |-> <<>>, pool |-> <<>>,
     assignments_made_in_round |-> TRUE]

NoSuggestion == [set |-> FALSE, rows |-> <<>>]

\* a session that is not inside a sign-up: the flights of the call, how many of them
\* the loop has gone through, cells_to_update and the warnings shown so far
PendingIdle == [pc |-> "idle", sel |-> <<>>, n |-> 0, cells |-> <<>>, warned |-> {}]

Suggestion(schedule) == [set |-> TRUE, rows |-> Nums(schedule)]

\* the messages of the suggest handler
PreAssignedMsgs(pre) == IF pre # <<>> THEN {Msg("info_pre_assigned", Len(pre))} ELSE {}

ResultMsgs(schedule) ==
    IF schedule # <<>> THEN {Msg("success_schedule", 0)} ELSE {Msg("info_no_flights", 0)}

(***************************************************************************)
(* The engine run step by step (specification EngineSpec): the handler up  *)
(* to the loop, one loop iteration at a time, and the presentation.        *)
(***************************************************************************)
EngineInit ==
    /\ sheet \in EngineSheets
    /\ suggested = [s \in Sessions |-> NoSuggestion]
    /\ msgs = {}
    /\ eng = EngIdle
    /\ pending = [s \in Sessions |-> PendingIdle]

WithPc(st, pc) ==
    [pc |-> pc, name |-> st.name, startTime |-> st.startTime, endTime |-> st.endTime,
     pre |-> st.pre, schedule |-> st.schedule, lastFlight |-> st.lastFlight,
     pool |-> st.pool, assignments_made_in_round |-> st.assignments_made_in_round]

\* lines 247-329: the button is pressed with a name and the two slider times
BeginSuggest(name, startTime, endTime) ==
    /\ eng.pc = "idle"
    /\ Usable(GetSheetData(sheet, FALSE))
    /\ IF Strip(name) = <<>>
       THEN /\ msgs' = {Msg("warn_enter_name", 0)}
            /\ eng' = eng
       ELSE \E pre \in SortedPreAssigned(DataFrame(sheet), name, startTime, endTime) :
              /\ eng' = WithPc(InitialState(DataFrame(sheet), name, startTime, endTime,
                                            pre), "loop")
              /\ msgs' = PreAssignedMsgs(pre)
    /\ UNCHANGED <<sheet, suggested, pending>>

EngState(e) ==
    [name |-> e.name, startTime |-> e.startTime, endTime |-> e.endTime, pre |-> e.pre,
     schedule |-> e.schedule, lastFlight |-> e.lastFlight, pool |-> e.pool,
     assignments_made_in_round |-> e.assignments_made_in_round]

\* lines 332-365: one iteration of the while loop
Iterate ==
    /\ eng.pc = "loop"
    /\ LoopCondition(EngState(eng))
    /\ eng' = WithPc(GreedyIteration(EngState(eng)), "loop")
    /\ UNCHANGED <<sheet, suggested, msgs, pending>>

\* lines 367-400: the loop has ended; the schedule is sorted and stored
Present ==
    /\ eng.pc = "loop"
    /\ ~LoopCondition(EngState(eng))
    /\ eng' = [eng EXCEPT !.pc = "done", !.schedule = SortSchedule(eng.schedule)]
    /\ suggested' = [suggested EXCEPT ![1] = Suggestion(eng'.schedule)]
    /\ msgs' = msgs \cup ResultMsgs(eng.schedule)
    /\ UNCHANGED <<sheet, pending>>

EngineNext ==
    \/ \E name \in NameInputs, startTime \in TimeOptions, endTime \in TimeOptions :
          BeginSuggest(name, startTime, endTime)
    \/ Iterate
    \/ Present

\* the rows of the sheets the runs of EngineLiveSpec start from
LiveRowChoices(i) ==
    { Row(i, 540, 550, Yes, No, GateA1, Empty),
      Row(i, 560, 570, Yes, No, GateA2, Empty),
      Row(i, 590, 600, Yes, Yes, GateB5, Empty),
      Row(i, 540, 540, Yes, No, GateA2, Ann) }

RECURSIVE LiveSheetsOfLen(_)
LiveSheetsOfLen(k) ==
    IF k = 0 THEN {<<>>}
    ELSE {Append(sh, r) : sh \in LiveSheetsOfLen(k - 1), r \in LiveRowChoices(k)}

LiveSheets == UNION {LiveSheetsOfLen(k) : k \in 1..MaxFlights}

EngineLiveInit ==
    /\ sheet \in LiveSheets
    /\ suggested = [s \in Sessions |-> NoSuggestion]
    /\ msgs = {}
    /\ eng = EngIdle
    /\ pending = [s \in Sessions |-> PendingIdle]

\* the handler runs to its end once the button is pressed
EngineLiveSpec ==
    EngineLiveInit /\ [][EngineNext]_vars /\ WF_vars(Iterate) /\ WF_vars(Present)

EngineSpec == EngineInit /\ [][EngineNext]_vars

(***************************************************************************)
(* sign_up_for_flights and the manual sign-up handler.                     *)
(***************************************************************************)
\* all_flight_nums.index(str(flight_num)): the first row holding the number, 0 for
\* the ValueError of a number that is not in the live sheet
IndexOf(num, rows) ==
    IF \E i \in 1..Len(rows) : rows[i].FlightOut = num
    THEN CHOOSE i \in 1..Len(rows) :
            /\ rows[i].FlightOut = num
            /\ \A j \in 1..(i - 1) : rows[j].FlightOut # num
    ELSE 0

Cell(row, value) == [row |-> row, value |-> value]

\* faulty variant: the name is put in front of the names the cell holds
new_observers_InFront(cell, name) == Join(<<Strip(name)>> \o ObserversList(cell))

\* the observer cell after the name is appended
new_observers(cell, name) == Join(Append(ObserversList(cell), Strip(name)))

\* faulty variant: the name is appended without looking for it in the list
RECURSIVE SignUpLoop_NoCheck(_, _, _, _)
SignUpLoop_NoCheck(name, sel, live, n) ==
    IF n = 0 THEN [cells |-> <<>>, msgs |-> {}]
    ELSE LET prev == SignUpLoop_NoCheck(name, sel, live, n - 1)
             row == IndexOf(sel[n], live)
         IN  IF row = 0
             THEN [cells |-> prev.cells,
                   msgs |-> prev.msgs \cup {Msg("warn_not_found", sel[n])}]
             ELSE [cells |-> Append(prev.cells,
                                    Cell(row, new_observers(live[row].Observers, name))),
                   msgs |-> prev.msgs]

\* faulty variant: a flight that is not found ends the loop
RECURSIVE SignUpLoop_StopAtMissing(_, _, _, _)
SignUpLoop_StopAtMissing(name, sel, live, n) ==
    IF n = 0 THEN [cells |-> <<>>, msgs |-> {}]
    ELSE LET prev == SignUpLoop_StopAtMissing(name, sel, live, n - 1)
             row == IndexOf(sel[n], live)
         IN  IF \E i \in 1..(n - 1) : IndexOf(sel[i], live) = 0
             THEN prev
             ELSE IF row = 0
             THEN [cells |-> prev.cells,
                   msgs |-> prev.msgs \cup {Msg("warn_not_found", sel[n])}]
             ELSE IF ~InList(Strip(name), ObserversList(live[row].Observers))
             THEN [cells |-> Append(prev.cells,
                                    Cell(row, new_observers(live[row].Observers, name))),
                   msgs |-> prev.msgs]
             ELSE [cells |-> prev.cells,
                   msgs |-> prev.msgs \cup {Msg("warn_already", sel[n])}]

\* lines 126-140: cells_to_update and the warnings after the first n flights of the
\* selection have been processed against the live sheet
RECURSIVE SignUpLoop(_, _, _, _)
SignUpLoop(name, sel, live, n) ==
    IF n = 0 THEN [cells |-> <<>>, msgs |-> {}]
    ELSE LET prev == SignUpLoop(name, sel, live, n - 1)
             row == IndexOf(sel[n], live)
         IN  IF row = 0
             THEN [cells |-> prev.cells,
                   msgs |-> prev.msgs \cup {Msg("warn_not_found", sel[n])}]
             ELSE IF ~InList(Strip(name), ObserversList(live[row].Observers))
             THEN [cells |-> Append(prev.cells,
                                    Cell(row, new_observers(live[row].Observers, name))),
                   msgs |-> prev.msgs]
             ELSE [cells |-> prev.cells,
                   msgs |-> prev.msgs \cup {Msg("warn_already", sel[n])}]

\* sheet.update_cells(cells): every cell of the batch is written
RECURSIVE update_cells(_, _)
update_cells(live, cells) ==
    IF cells = <<>> THEN live
    ELSE update_cells([live EXCEPT ![Head(cells).row].Observers = Head(cells).value],
                      Tail(cells))

\* faulty variant: the cells gathered before the failure are written
AfterStoreFailure_Partial(live, cells) == update_cells(live, cells)

\* an exception leaves sign_up_for_flights before update_cells is reached
AfterStoreFailure(live, cells) == live

\* the flights ticked in the data editor: any rows of the suggested schedule
RECURSIVE Ticked(_, _)
Ticked(rows, mask) ==
    IF rows = <<>> THEN <<>>
    ELSE (IF mask[1] THEN <<rows[1]>> ELSE <<>>)
         \o Ticked(Tail(rows), [i \in 1..(Len(rows) - 1) |-> mask[i + 1]])

Selections(rows) == {Ticked(rows, mask) : mask \in [1..Len(rows) -> BOOLEAN]}

\* where a store call of a handler may fail
Failures(n) ==
    {[at |-> a, k |-> 0] : a \in {"none", "data", "open"}}
    \cup {[at |-> "cell", k |-> k] : k \in 1..n}

DeleteRow(rows, i) ==
    IF i \in 1..Len(rows)
    THEN SubSeq(rows, 1, i - 1) \o SubSeq(rows, i + 1, Len(rows))
    ELSE rows

Init ==
    /\ sheet \in StoreSheets
    /\ suggested = [s \in Sessions |-> NoSuggestion]
    /\ msgs = {}
    /\ eng = EngIdle
    /\ pending = [s \in Sessions |-> PendingIdle]

\* a row is deleted from the sheet outside the program
RemoveRow(i) ==
    /\ i \in 1..Len(sheet)
    /\ sheet' = DeleteRow(sheet, i)
    /\ UNCHANGED <<suggested, msgs, eng, pending>>

\* the sheet with name on every flight of the schedule
RECURSIVE WithNameOn(_, _, _)
WithNameOn(rows, schedule, name) ==
    IF schedule = <<>> THEN rows
    ELSE WithNameOn(
            [rows EXCEPT ![IndexOf(Head(schedule).FlightOut, rows)].Observers =
                new_observers(rows[IndexOf(Head(schedule).FlightOut, rows)].Observers,
                              name)],
            Tail(schedule), name)

\* faulty variant: the suggestion is written to the sheet when it is computed
Suggest_Persisting(s, name, startTime, endTime, readFails) ==
    /\ IF ~Usable(GetSheetData(sheet, readFails))
       THEN /\ msgs' = {}
            /\ suggested' = suggested
            /\ sheet' = sheet
       ELSE IF Strip(name) = <<>>
       THEN /\ msgs' = {Msg("warn_enter_name", 0)}
            /\ suggested' = suggested
            /\ sheet' = sheet
       ELSE \E pre \in SortedPreAssigned(DataFrame(sheet), name, startTime, endTime) :
              LET schedule == SuggestedSchedule(DataFrame(sheet), name, startTime,
                                                endTime, pre)
              IN  /\ suggested' = [suggested EXCEPT ![s] = Suggestion(schedule)]
                  /\ msgs' = PreAssignedMsgs(pre) \cup ResultMsgs(schedule)
                  /\ sheet' = WithNameOn(sheet, schedule, name)
    /\ UNCHANGED <<eng, pending>>

\* lines 247-400: "Suggest My Schedule" pressed in session s
Suggest(s, name, startTime, endTime, readFails) ==
    /\ IF ~Usable(GetSheetData(sheet, readFails))
       THEN /\ msgs' = {}
            /\ suggested' = suggested
       ELSE IF Strip(name) = <<>>
       THEN /\ msgs' = {Msg("warn_enter_name", 0)}
            /\ suggested' = suggested
       ELSE \E pre \in SortedPreAssigned(DataFrame(sheet), name, startTime, endTime) :
              LET schedule == SuggestedSchedule(DataFrame(sheet), name, startTime,
                                                endTime, pre)
              IN  /\ suggested' = [suggested EXCEPT ![s] = Suggestion(schedule)]
                  /\ msgs' = PreAssignedMsgs(pre) \cup ResultMsgs(schedule)
    /\ UNCHANGED <<sheet, eng, pending>>

\* lines 108-149: sign_up_for_flights(name, sel), f the store failure met
sign_up_for_flights(name, sel, f) ==
    IF f.at = "open"
    THEN /\ msgs' = {Msg("critical_error", 0)}
         /\ sheet' = sheet
    ELSE IF f.at = "data"
    THEN /\ msgs' = {Msg("error_no_data", 0)}
         /\ sheet' = sheet
    ELSE IF f.at = "cell"
    THEN /\ f.k \in 1..Len(sel)
         /\ IndexOf(sel[f.k], sheet) # 0
         /\ msgs' = SignUpLoop(name, sel, sheet, f.k - 1).msgs
                        \cup {Msg("critical_error", 0)}
         /\ sheet' = AfterStoreFailure(sheet, SignUpLoop(name, sel, sheet, f.k - 1).cells)
    ELSE LET done == SignUpLoop(name, sel, sheet, Len(sel))
         IN  IF done.cells = <<>>
             THEN /\ msgs' = done.msgs
                  /\ sheet' = sheet
             ELSE /\ sheet' = update_cells(sheet, done.cells)
                  /\ msgs' = done.msgs \cup {Msg("success_signed_up", Len(done.cells))}

\* lines 402-446: "Confirm & Sign Up for Selected Flights" pressed in session s
\* (without a name or a ticked flight no store call is made, so none fails)
Confirm(s, name, sel, f) ==
    /\ Usable(GetSheetData(sheet, FALSE))
    /\ suggested[s].set /\ suggested[s].rows # <<>>
    /\ sel \in Selections(suggested[s].rows)
    /\ (Strip(name) = <<>> \/ sel = <<>>) => f.at = "none"
    /\ IF Strip(name) = <<>>
       THEN /\ msgs' = {Msg("warn_enter_name", 0)}
            /\ sheet' = sheet
       ELSE IF sel = <<>>
       THEN /\ msgs' = {Msg("warn_select_flight", 0)}
            /\ sheet' = sheet
       ELSE sign_up_for_flights(name, sel, f)
    /\ UNCHANGED <<suggested, eng, pending>>

\* lines 469-515: the button of row j of the frame pressed in manual sign-up mode;
\* del is the row deleted from the sheet outside the program after the frame was
\* read and before the live flight numbers are (0 for none; the deletion of
\* another row than j, or one in a run that meets a store failure, is RemoveRow
\* followed by this handler; without a name the page shows no button)
ManualSignUp(name, j, f, del) ==
    /\ del \in {0, j} /\ (f.at # "none" => del = 0)
    /\ Strip(name) = <<>> => (j = 1 /\ del = 0 /\ f.at = "none")
    /\ IF Strip(name) = <<>>
       THEN /\ msgs' = {Msg("warn_enter_name", 0)}
            /\ sheet' = sheet
       ELSE IF ~Usable(GetSheetData(sheet, f.at = "data"))
       THEN /\ msgs' = {Msg("info_no_data", 0)}
            /\ sheet' = sheet
       ELSE /\ j \in 1..Len(sheet)
            /\ LET num == DataFrame(sheet)[j].FlightOut
                   live == DeleteRow(sheet, del)
                   row == IndexOf(num, live)
               IN  IF f.at = "open"
                   THEN /\ msgs' = {Msg("critical_error", 0)}
                        /\ sheet' = live
                   ELSE IF row = 0
                   THEN /\ msgs' = {Msg("manual_not_found", num)}
                        /\ sheet' = live
                   ELSE IF f.at = "cell"
                   THEN /\ msgs' = {Msg("manual_error", num)}
                        /\ sheet' = live
                   ELSE IF InList(Strip(name), ObserversList(live[row].Observers))
                   THEN /\ msgs' = {Msg("manual_already", num)}
                        /\ sheet' = live
                   ELSE /\ sheet' = update_cells(live,
                               <<Cell(row, new_observers(live[row].Observers, name))>>)
                        /\ msgs' = {Msg("manual_success", num)}
    /\ UNCHANGED <<suggested, eng, pending>>

Next ==
    \/ \E i \in 1..MaxStoreFlights : RemoveRow(i)
    \/ \E s \in Sessions : Suggest(s, Blank, 540, 540, TRUE)
    \/ \E s \in Sessions, name \in NameInputs, startTime \in TimeOptions,
          endTime \in TimeOptions :
          Suggest(s, name, startTime, endTime, FALSE)
    \/ \E s \in Sessions, name \in NameInputs, f \in Failures(MaxStoreFlights) :
          \E sel \in Selections(suggested[s].rows) : Confirm(s, name, sel, f)
    \/ \E name \in NameInputs, j \in 1..MaxStoreFlights, f \in Failures(1),
          del \in 0..MaxStoreFlights :
          ManualSignUp(name, j, f, del)

Spec == Init /\ [][Next]_vars

(***************************************************************************)
(* Concurrent sessions (specification RaceSpec).  Every browser session    *)
(* runs the script in a thread of its own, and a sign-up is a sequence of  *)
(* store calls: one read of the cell of each flight, and the write after   *)
(* the reads.  The calls of different sessions interleave.                 *)
(***************************************************************************)
NumRaceSessions == 2

RaceSessions == 1..NumRaceSessions

\* the observer who uses session s
RaceName(s) == IF s = 1 THEN Ann ELSE Bob

RaceInit ==
    /\ sheet \in StoreSheets
    /\ suggested = [s \in RaceSessions |-> NoSuggestion]
    /\ msgs = {}
    /\ eng = EngIdle
    /\ pending = [s \in RaceSessions |-> PendingIdle]

\* faulty variant: a flight whose cell holds a name is turned down
SignUpStep_Guarded(name, num, live, acc) ==
    LET row == IndexOf(num, live)
    IN  IF row = 0
        THEN [cells |-> acc.cells, msgs |-> acc.msgs \cup {Msg("warn_not_found", num)}]
        ELSE IF ObserversList(live[row].Observers) = <<>>
        THEN [cells |-> Append(acc.cells,
                               Cell(row, new_observers(live[row].Observers, name))),
              msgs |-> acc.msgs]
        ELSE [cells |-> acc.cells, msgs |-> acc.msgs \cup {Msg("warn_already", num)}]

\* lines 127-140: the body of the loop for the flight num, read from the live sheet
SignUpStep(name, num, live, acc) ==
    LET row == IndexOf(num, live)
    IN  IF row = 0
        THEN [cells |-> acc.cells, msgs |-> acc.msgs \cup {Msg("warn_not_found", num)}]
        ELSE IF ~InList(Strip(name), ObserversList(live[row].Observers))
        THEN [cells |-> Append(acc.cells,
                               Cell(row, new_observers(live[row].Observers, name))),
              msgs |-> acc.msgs]
        ELSE [cells |-> acc.cells, msgs |-> acc.msgs \cup {Msg("warn_already", num)}]

\* "Suggest My Schedule" pressed in session s, for the whole day
RaceSuggest(s) ==
    /\ pending[s].pc = "idle"
    /\ Suggest(s, RaceName(s), 540, 600, FALSE)

\* lines 440-125: the confirm button is pressed with the flights sel ticked, and
\* sign_up_for_flights runs up to its loop
BeginConfirm(s, sel) ==
    /\ pending[s].pc = "idle"
    /\ suggested[s].set /\ suggested[s].rows # <<>>
    /\ sel \in Selections(suggested[s].rows) /\ sel # <<>>
    /\ pending' = [pending EXCEPT ![s] =
                      [pc |-> "confirm", sel |-> sel, n |-> 0, cells |-> <<>>,
                       warned |-> {}]]
    /\ UNCHANGED <<sheet, suggested, msgs, eng>>

\* lines 126-140: one iteration of the loop, with its read of the cell
ReadCell(s) ==
    /\ pending[s].pc = "confirm"
    /\ pending[s].n < Len(pending[s].sel)
    /\ LET acc == SignUpStep(RaceName(s), pending[s].sel[pending[s].n + 1], sheet,
                             [cells |-> pending[s].cells, msgs |-> pending[s].warned])
       IN  pending' = [pending EXCEPT ![s].n = pending[s].n + 1,
                                      ![s].cells = acc.cells,
                                      ![s].warned = acc.msgs]
    /\ UNCHANGED <<sheet, suggested, msgs, eng>>

\* lines 142-149: the loop is over; the gathered cells are written in one call
WriteBatch(s) ==
    /\ pending[s].pc = "confirm"
    /\ pending[s].n = Len(pending[s].sel)
    /\ IF pending[s].cells # <<>>
       THEN /\ sheet' = update_cells(sheet, pending[s].cells)
            /\ msgs' = pending[s].warned
                       \cup {Msg("success_signed_up", Len(pending[s].cells))}
       ELSE /\ sheet' = sheet
            /\ msgs' = pending[s].warned
    /\ pending' = [pending EXCEPT ![s] = PendingIdle]
    /\ UNCHANGED <<suggested, eng>>

\* lines 493-499: the button of row j is pressed in manual sign-up mode and the cell
\* of the flight is read
ManualRead(s, j) ==
    /\ pending[s].pc = "idle"
    /\ j \in 1..Len(sheet)
    /\ IF InList(RaceName(s), ObserversList(sheet[j].Observers))
       THEN /\ msgs' = {Msg("manual_already", sheet[j].FlightOut)}
            /\ pending' = pending
       ELSE /\ msgs' = msgs
            /\ pending' = [pending EXCEPT ![s] =
                              [pc |-> "manual", sel |-> <<sheet[j].FlightOut>>, n |-> 1,
                               cells |-> <<Cell(j, new_observers(sheet[j].Observers,
                                                                 RaceName(s)))>>,
                               warned |-> {}]]
    /\ UNCHANGED <<sheet, suggested, eng>>

\* lines 500-505: update_cell with the list that was read and the name
ManualWrite(s) ==
    /\ pending[s].pc = "manual"
    /\ sheet' = update_cells(sheet, pending[s].cells)
    /\ msgs' = {Msg("manual_success", pending[s].sel[1])}
    /\ pending' = [pending EXCEPT ![s] = PendingIdle]
    /\ UNCHANGED <<suggested, eng>>

RaceNext ==
    \/ \E s \in RaceSessions : RaceSuggest(s)
    \/ \E s \in RaceSessions : \E sel \in Selections(suggested[s].rows) : BeginConfirm(s, sel)
    \/ \E s \in RaceSessions : ReadCell(s)
    \/ \E s \in RaceSessions : WriteBatch(s)
    \/ \E s \in RaceSessions, j \in 1..MaxStoreFlights : ManualRead(s, j)
    \/ \E s \in RaceSessions : ManualWrite(s)

RaceSpec == RaceInit /\ [][RaceNext]_vars

(***************************************************************************)
(* Properties of the engine, checked under EngineSpec.                     *)
(***************************************************************************)
Schedule == eng.schedule

Produced == eng.pc = "done"

\* the rows of the frame the request ran on
Catalog == DataFrame(sheet)

OnFlight(name, r) == InList(name, ObserversList(r.Observers))

BusyDisjoint(a, b) == a.busyEnd <= b.busyStart \/ b.busyEnd <= a.busyStart

GreedilySelected(r) == ~InList(r.FlightOut, Nums(eng.pre))

\* C1 (P1, no self-overlap): two distinct flights of the schedule have disjoint busy
\* intervals; stated for the pairs the greedy loop selected itself (flights the
\* observer already held are kept whatever their times)
C1_NoSelfOverlap ==
    \A i, j \in 1..Len(Schedule) :
        (i # j /\ GreedilySelected(Schedule[i]) /\ GreedilySelected(Schedule[j]))
        => BusyDisjoint(Schedule[i], Schedule[j])

\* C2 (P2, window containment): every flight of the schedule has its busy interval
\* inside the requested window
C2_WindowContainment ==
    \A i \in 1..Len(Schedule) :
        Schedule[i].busyStart >= eng.startTime /\ Schedule[i].busyEnd <= eng.endTime

\* C4 (P5, pre-assignment preservation) as stated: a flight that lists the requesting
\* observer and lies within the window is in the produced schedule
C4_PreAssignedKept_Original ==
    Produced =>
        \A i \in 1..Len(Catalog) :
            (/\ OnFlight(eng.name, Catalog[i])
             /\ Catalog[i].Start # NaT /\ Catalog[i].End # NaT
             /\ InWindow(Catalog[i], eng.startTime, eng.endTime))
            => InList(Catalog[i].FlightOut, Nums(Schedule))

\* C4 amended: a flight whose observer cell holds the requesting observer's name (as
\* the engine looks for it: anywhere in the cell, letter case ignored), that has
\* equipment ('Yes') and valid boarding times, and whose boarding interval lies within
\* the window, is in the produced schedule
C4_PreAssignedKept ==
    Produced =>
        \A i \in 1..Len(Catalog) :
            (/\ is_assigned_to_me(Catalog[i], eng.name)
             /\ Catalog[i].Start # NaT /\ Catalog[i].End # NaT
             /\ InWindow(Catalog[i], eng.startTime, eng.endTime)
             /\ Catalog[i].HasEquipment = Yes)
            => InList(Catalog[i].FlightOut, Nums(Schedule))

\* two flights the observer already holds overlap, so no greedy scan would have
\* picked both, and both are in the produced schedule
C4_Witness ==
    /\ Produced
    /\ \E i, j \in 1..Len(Schedule) :
          /\ i # j
          /\ OnFlight(eng.name, Schedule[i]) /\ OnFlight(eng.name, Schedule[j])
          /\ ~BusyDisjoint(Schedule[i], Schedule[j])

\* C5 (P3, equipment filter): no flight whose has-equipment flag is not 'Yes' is in
\* a schedule, at any point of the run
C5_EquipmentFilter ==
    \A i \in 1..Len(Schedule) : Schedule[i].HasEquipment = Yes

\* a schedule was produced from a frame in which the requesting observer holds a
\* flight without equipment that lies within the window
C5_Witness ==
    /\ Produced
    /\ Schedule # <<>>
    /\ \E i \in 1..Len(Catalog) :
          /\ Catalog[i].HasEquipment # Yes
          /\ OnFlight(eng.name, Catalog[i])
          /\ InWindow(Catalog[i], eng.startTime, eng.endTime)

\* C6 (exact observer matching): a flight whose observer list is non-empty and does
\* not hold the requesting observer's exact name is never in the schedule
C6_ExactMatch ==
    \A i \in 1..Len(Schedule) :
        ObserversList(Schedule[i].Observers) # <<>> => OnFlight(eng.name, Schedule[i])

\* C9 (empty window): a zero-width window gives an empty schedule
C9_EmptyWindow ==
    (Produced /\ eng.startTime = eng.endTime) => Schedule = <<>>

\* the state of the run before the step, and the flight a step has selected
Before == EngState(eng)

Assigned == Iterate /\ Len(eng'.schedule) = Len(eng.schedule) + 1

Selected == eng'.schedule[Len(eng'.schedule)]

\* the flights of the pool that pass the filter of the step
EligibleSet ==
    {r \in {Before.pool[i] : i \in 1..Len(Before.pool)} :
        Eligible(r, last_flight_busy_end(Before), Before.endTime)}

\* the row of the sheet a flight of the run comes from
CatalogIndex(r) == IndexOf(r.FlightOut, sheet)

C12_ImportanceFirst ==
    [][Assigned =>
          ((\E r \in EligibleSet : r.isImportant) => Selected.isImportant)]_vars

\* minutes from the cursor to the start of the busy interval of r
Gap(r) == r.busyStart - last_flight_busy_end(Before)

\* C13 (downtime is measured from the cursor): among the eligible flights of the
\* importance of the selected one, none has a smaller gap between the cursor and its
\* busy start, at the first step as well
C13_DowntimeFromCursor ==
    [][Assigned =>
          \A r \in EligibleSet :
              r.isImportant = Selected.isImportant => Gap(Selected) <= Gap(r)]_vars

Max(a, b) == IF a >= b THEN a ELSE b

RECURSIVE LatestBusyEnd(_)
LatestBusyEnd(seq) ==
    IF seq = <<>> THEN NaT ELSE Max(Head(seq).busyEnd, LatestBusyEnd(Tail(seq)))

\* the run is in front of its first iteration
BeforeFirstStep ==
    eng.pc = "loop" /\ eng.schedule = eng.pre /\ eng.assignments_made_in_round

\* C14 (initial cursor): before the first step the cursor is the later of the window
\* start and the largest busy end of the flights the observer already holds; stated
\* for flights that list the observer's exact name and start at different times
C14_InitialCursor ==
    (/\ BeforeFirstStep
     /\ \A i \in 1..Len(eng.pre) : OnFlight(eng.name, eng.pre[i])
     /\ \A i \in 1..(Len(eng.pre) - 1) : eng.pre[i].Start < eng.pre[i + 1].Start)
    => last_flight_busy_end(Before) = Max(eng.startTime, LatestBusyEnd(eng.pre))

\* the pool the loop starts from
InitialPool ==
    InitialState(Catalog, eng.name, eng.startTime, eng.endTime, eng.pre).pool

\* the iterations the loop has made: one for each flight it added, and the last one
\* if that added none
Iterations ==
    (Len(eng.schedule) - Len(eng.pre))
    + (IF eng.assignments_made_in_round THEN 0 ELSE 1)

\* C15 (the loop terminates and is maximal): an iteration that assigns a flight
\* shrinks the pool, the loop makes no more iterations than the pool it starts from
\* has flights, a run that has entered the loop ends, and at the end no flight left
\* in the pool is eligible
C15_TerminatesMaximal ==
    /\ [][Assigned => Len(eng'.pool) < Len(eng.pool)]_vars
    /\ [](eng.pc # "idle" => Iterations <= Len(InitialPool))
    /\ [](Produced =>
            \A i \in 1..Len(eng.pool) :
                ~Eligible(eng.pool[i], last_flight_busy_end(Before), eng.endTime))
    /\ (eng.pc = "loop" ~> Produced)

\* a run ended after it had added a flight, with a flight left in the pool
C15_Witness ==
    Produced /\ Len(eng.schedule) > Len(eng.pre) /\ eng.pool # <<>>

(***************************************************************************)
(* Properties of the sign-up handlers, checked under Spec.                 *)
(***************************************************************************)
StoreNums == {FlightNumber(i) : i \in 1..MaxStoreFlights}

Listed(num, rows) == IndexOf(num, rows) # 0

CellOf(num, rows) == rows[IndexOf(num, rows)].Observers

\* the messages of a store failure
FailureShown(m) ==
    \/ Msg("critical_error", 0) \in m
    \/ Msg("error_no_data", 0) \in m
    \/ Msg("info_no_data", 0) \in m
    \/ \E num \in StoreNums : Msg("manual_error", num) \in m

\* the batch confirm of name for the selection sel ran without a store failure
ConfirmRan(name, sel) ==
    /\ Strip(name) # <<>>
    /\ ~FailureShown(msgs')
    /\ \E s \in Sessions : Confirm(s, name, sel, [at |-> "none", k |-> 0])

\* the manual sign-up of name for flight num ran without a store failure
ManualRan(name, num) ==
    /\ Strip(name) # <<>>
    /\ ~FailureShown(msgs')
    /\ \E j \in 1..Len(sheet), del \in 0..Len(sheet) :
          /\ sheet[j].FlightOut = num
          /\ ManualSignUp(name, j, [at |-> "none", k |-> 0], del)

\* name is signed up for flight num in this step, by either handler
SignedUpFor(name, num) ==
    \/ \E s \in Sessions :
          \E sel \in Selections(suggested[s].rows) : InList(num, sel) /\ ConfirmRan(name, sel)
    \/ ManualRan(name, num)

AlreadyWarned(num, m) == Msg("warn_already", num) \in m \/ Msg("manual_already", num) \in m

\* C3 (P4, idempotent confirm): after a sign-up of a name for a flight of the live
\* sheet the name is in the flight's observer list exactly once; when the name was
\* already in the list, the sign-up leaves the cell as it was and warns
C3_IdempotentSignUp ==
    [][\A name \in NameInputs, num \in StoreNums :
          (SignedUpFor(name, num) /\ Listed(num, sheet'))
          => /\ Count(Strip(name), ObserversList(CellOf(num, sheet'))) = 1
             /\ (Listed(num, sheet) /\ OnFlight(Strip(name), sheet[IndexOf(num, sheet)]))
                => /\ CellOf(num, sheet') = CellOf(num, sheet)
                   /\ AlreadyWarned(num, msgs')]_vars

\* a batch confirm met a flight that already listed the name, which is there once
C3_Witness ==
    \E num \in StoreNums :
        /\ Msg("warn_already", num) \in msgs
        /\ Listed(num, sheet)
        /\ Count(Ann, ObserversList(CellOf(num, sheet))) = 1
        /\ Len(ObserversList(CellOf(num, sheet))) = 2

\* C7 (not-found is recoverable per item): in a batch confirm every selected flight
\* that is not in the live sheet gives a warning, and every selected flight that is
\* in it and does not list the name lists it afterwards
C7_NotFoundSkipped ==
    [][\A name \in NameInputs, s \in Sessions :
          \A sel \in Selections(suggested[s].rows) :
             ConfirmRan(name, sel)
             => \A k \in 1..Len(sel) :
                   /\ ~Listed(sel[k], sheet) => Msg("warn_not_found", sel[k]) \in msgs'
                   /\ Listed(sel[k], sheet)
                      => /\ Listed(sel[k], sheet')
                         /\ OnFlight(Strip(name), sheet'[IndexOf(sel[k], sheet')])]_vars

\* one confirm warned of a flight that is gone and signed the observer up for another
C7_Witness ==
    /\ \E num \in StoreNums : Msg("warn_not_found", num) \in msgs /\ ~Listed(num, sheet)
    /\ Msg("success_signed_up", 1) \in msgs

\* a batch confirm that met a store failure
ConfirmFailed ==
    \E s \in Sessions, name \in NameInputs, f \in Failures(MaxStoreFlights) :
        /\ FailureShown(msgs')
        /\ Strip(name) # <<>>
        /\ f.at # "none"
        /\ \E sel \in Selections(suggested[s].rows) : sel # <<>> /\ Confirm(s, name, sel, f)

\* C8 (a store failure applies nothing): a confirm that cannot get the day's data, or
\* meets a failing store call while it goes through the selection, changes no cell
C8_NoPartialApply ==
    [][ConfirmFailed => sheet' = sheet]_vars

\* a confirm failed on a cell read after it had gone through an earlier flight
C8_Witness ==
    /\ Msg("critical_error", 0) \in msgs
    /\ \E num \in StoreNums : Msg("warn_not_found", num) \in msgs
    /\ \E i \in 1..Len(sheet) : ~OnFlight(Ann, sheet[i]) /\ ~OnFlight(Anna, sheet[i])

\* the observer cell of flight num differs between the two states of a step
CellChanged(num) ==
    Listed(num, sheet) /\ Listed(num, sheet') /\ CellOf(num, sheet') # CellOf(num, sheet)

\* C10 (a suggestion is not persisted): the observer cell of a flight changes only in
\* a confirm whose selection holds the flight, or in a manual sign-up for the flight
C10_OnlySignUpsWrite ==
    [][\A num \in StoreNums :
          CellChanged(num) => \E name \in NameInputs : SignedUpFor(name, num)]_vars

\* a confirm of one flight of a two-flight suggestion: the other flight is unclaimed
C10_Witness ==
    /\ Len(suggested[1].rows) = 2
    /\ Msg("success_signed_up", 1) \in msgs
    /\ \E i, j \in 1..Len(sheet) :
          /\ OnFlight(Ann, sheet[i]) /\ InList(sheet[i].FlightOut, suggested[1].rows)
          /\ is_unassigned(sheet[j]) /\ InList(sheet[j].FlightOut, suggested[1].rows)

\* C16 (confirm writes only changed rows): a confirm changes nothing of a row but its
\* observer cell; the cell of a selected flight that did not list the name holds the
\* names it held, in their order, and then the name; every other cell is as it was
C16_WritesOnlyChanged ==
    [][\A name \in NameInputs, s \in Sessions :
          \A sel \in Selections(suggested[s].rows) :
             ConfirmRan(name, sel)
             => /\ Len(sheet') = Len(sheet)
                /\ \A i \in 1..Len(sheet) :
                      /\ [sheet'[i] EXCEPT !.Observers = sheet[i].Observers] = sheet[i]
                      /\ IF InList(sheet[i].FlightOut, sel)
                            /\ ~OnFlight(Strip(name), sheet[i])
                         THEN ObserversList(sheet'[i].Observers)
                              = Append(ObserversList(sheet[i].Observers), Strip(name))
                         ELSE sheet'[i].Observers = sheet[i].Observers]_vars

\* a confirm added the name behind the one a flight held and left the other flight of
\* the sheet unclaimed
C16_Witness ==
    /\ Msg("success_signed_up", 1) \in msgs
    /\ Len(sheet) = 2
    /\ \E i, j \in 1..Len(sheet) :
          /\ ObserversList(sheet[i].Observers) = <<Anna, Ann>>
          /\ is_unassigned(sheet[j])

(***************************************************************************)
(* Properties of concurrent sign-ups, checked under RaceSpec.              *)
(***************************************************************************)
\* the flight the loop of session s reads next, and its row
NextFlight(s) == pending[s].sel[pending[s].n + 1]

NextRow(s) == IndexOf(NextFlight(s), sheet)

\* C17 (no optimistic-concurrency check): a confirm turns no flight down for what its
\* cell has come to hold since the suggestion was computed: the loop gathers a cell
\* for every selected flight that does not list the observer, whoever else it lists,
\* and the write puts every gathered cell into the sheet and reports success
C17_NoConcurrencyCheck ==
    [][\A s \in RaceSessions :
          /\ (ReadCell(s) /\ ~OnFlight(RaceName(s), sheet[NextRow(s)]))
             => /\ Len(pending'[s].cells) = Len(pending[s].cells) + 1
                /\ ObserversList(pending'[s].cells[Len(pending'[s].cells)].value)
                   = Append(ObserversList(sheet[NextRow(s)].Observers), RaceName(s))
          /\ (WriteBatch(s) /\ pending[s].cells # <<>>)
             => /\ \A k \in 1..Len(pending[s].cells) :
                      OnFlight(RaceName(s), sheet'[pending[s].cells[k].row])
                /\ Msg("success_signed_up", Len(pending[s].cells)) \in msgs']_vars

\* both observers hold a suggestion with the same flight, a confirm of the flight has
\* succeeded after the other observer signed up, and the flight lists both names
C17_Witness ==
    /\ Msg("success_signed_up", 1) \in msgs
    /\ \A s \in RaceSessions : pending[s].pc = "idle"
    /\ \E i \in 1..Len(sheet) :
          /\ \A s \in RaceSessions : InList(sheet[i].FlightOut, suggested[s].rows)
          /\ ObserversList(sheet[i].Observers) \in {<<Ann, Bob>>, <<Bob, Ann>>}

\* C18 (no lost sign-up): a name that is in the observer list of a flight stays in it
\* through every step of every session
C18_NoLostSignUp ==
    [][\A i \in 1..Len(sheet), s \in RaceSessions :
          OnFlight(RaceName(s), sheet[i]) => OnFlight(RaceName(s), sheet'[i])]_vars

====
